---------------------------- MODULE Spec2Model ----------------------------
(***************************************************************************)
(* The POST /api/generate pipeline of the lesson generator                 *)
(* (src/unnamed/part_000): validation, pedagogical adaptation, text        *)
(* generation, normalization of the parsed lesson, concurrent image        *)
(* generation with retries, deck assembly and the response.                *)
(*                                                                         *)
(* Strings are run-length encoded: a string is a sequence of runs          *)
(* [c |-> character, n |-> repetitions], adjacent runs holding different   *)
(* characters.  This keeps strings longer than 150 characters small.       *)
(* JSON values are records [t, num, s, items] tagged by t.                 *)
(***************************************************************************)
EXTENDS Integers, Sequences, FiniteSets, TLC

(***************************************************************************)
(* Bounds of the model.                                                    *)
(***************************************************************************)
\* runs in a raw string content (string branch and single list items)
MaxRuns == 2
\* items in a raw list content
MaxItems == 6
\* slides in a lesson returned by the text-generation service
MaxSlides == 2
\* pieces (a fragment and its terminator) in a raw string content made of
\* many sentences
MaxFragments == 6
\* requested slide counts and ages range over -MaxRequested .. MaxRequested,
\* in steps of one half
MaxRequested == 72

(***************************************************************************)
(* Program constants.                                                      *)
(***************************************************************************)
\* cleaned.length > 150
MaxBulletLen == 150
\* .slice(0, 5)
MaxBullets == 5
\* topic.trim().length < 3
MinTopicLen == 3
\* Math.min(Math.max(Number(slideCount) || 5, 3), 16)
DefaultSlides == 5
MinSlides == 3
MaxSlideCount == 16
\* Math.min(Math.max(Number(teacherAge) || 30, 20), 70)
DefaultAge == 30
MinAge == 20
MaxAge == 70
\* age < 30 ? ... : age < 50 ? ... : ...
YoungBelow == 30
MidBelow == 50
\* generateImage(prompt, retries = 2)
Retries == 2

(***************************************************************************)
(* Strings.                                                                *)
(***************************************************************************)
Run(ch, k) == [c |-> ch, n |-> k]

RECURSIVE StrLen(_)
\* String.prototype.length
StrLen(s) == IF s = <<>> THEN 0 ELSE Head(s).n + StrLen(Tail(s))

RECURSIVE Canon(_)
\* concatenation result in canonical form: adjacent equal characters merged
Canon(s) ==
    IF Len(s) < 2 THEN s
    ELSE IF s[1].c = s[2].c
         THEN Canon(<<Run(s[1].c, s[1].n + s[2].n)>> \o SubSeq(s, 3, Len(s)))
         ELSE <<s[1]>> \o Canon(Tail(s))

\* a literal, character by character
Lit(chars) == Canon([i \in 1..Len(chars) |-> Run(chars[i], 1)])

Concat(a, b) == Canon(a \o b)

IsWs(ch) == ch = " "

RECURSIVE TrimStart(_)
TrimStart(s) ==
    IF s # <<>> /\ IsWs(Head(s).c) THEN TrimStart(Tail(s)) ELSE s

RECURSIVE TrimEnd(_)
TrimEnd(s) ==
    IF s # <<>> /\ IsWs(s[Len(s)].c) THEN TrimEnd(SubSeq(s, 1, Len(s) - 1)) ELSE s

\* String.prototype.trim
Trim(s) == TrimEnd(TrimStart(s))

RECURSIVE SplitFrom(_, _, _, _, _)
\* s.split(regex): seps is the character class; plus is TRUE for /[...]+/
\* (a run of separators is one split point) and FALSE for /[...]/ (every
\* separator character is a split point, leaving empty strings in between)
SplitFrom(s, seps, plus, out, cur) ==
    IF s = <<>> THEN Append(out, cur)
    ELSE IF Head(s).c \in seps
         THEN SplitFrom(Tail(s), seps, plus,
                        Append(out, cur)
                          \o (IF plus THEN <<>>
                              ELSE [i \in 1..(Head(s).n - 1) |-> <<>>]),
                        <<>>)
         ELSE SplitFrom(Tail(s), seps, plus, out, Append(cur, Head(s)))

Split(s, seps, plus) == SplitFrom(s, seps, plus, <<>>, <<>>)

\* Array.prototype.map with trim on a sequence of strings
TrimAll(seq) == [i \in 1..Len(seq) |-> Trim(seq[i])]

\* Array.prototype.slice(0, k)
Slice0(seq, k) == SubSeq(seq, 1, IF Len(seq) < k THEN Len(seq) ELSE k)

\* decimal digits of a positive integer, as a string
DigitChar(d) == <<"0", "1", "2", "3", "4", "5", "6", "7", "8", "9">>[d + 1]

RECURSIVE Digits(_)
Digits(k) ==
    IF k < 10 THEN <<Run(DigitChar(k), 1)>>
    ELSE Concat(Digits(k \div 10), <<Run(DigitChar(k % 10), 1)>>)

(***************************************************************************)
(* JSON values.                                                            *)
(***************************************************************************)
JVal(tag, k, str, its) == [t |-> tag, num |-> k, s |-> str, items |-> its]
\* property not present (undefined)
JAbsent == JVal("absent", 0, <<>>, <<>>)
JNull == JVal("null", 0, <<>>, <<>>)
JBool(b) == JVal("bool", IF b THEN 1 ELSE 0, <<>>, <<>>)
\* numbers are held in halves: JNum(9) is 4.5
JNum(twice) == JVal("num", twice, <<>>, <<>>)
JStr(str) == JVal("str", 0, str, <<>>)
JList(its) == JVal("list", 0, <<>>, its)
JObj == JVal("obj", 0, <<>>, <<>>)

\* JavaScript truthiness: !v is ~Truthy(v)
Truthy(v) ==
    CASE v.t \in {"absent", "null"} -> FALSE
      [] v.t \in {"bool", "num"} -> v.num # 0
      [] v.t = "str" -> v.s # <<>>
      [] OTHER -> TRUE

IsString(v) == v.t = "str"
IsArray(v) == v.t = "list"


(***************************************************************************)
(* Content normalizer: lessonData.slides.map((slide, idx) => ...).         *)
(***************************************************************************)
\* /[.!?]+/
SentenceEnds == {".", "!", "?"}
\* /[.:;]/
ClauseSeps == {".", ":", ";"}

NonEmptyStr(str) == StrLen(str) > 0

\* 'Content not generated'
ContentNotGenerated ==
    Lit(<<"C", "o", "n", "t", "e", "n", "t", " ", "n", "o", "t", " ",
          "g", "e", "n", "e", "r", "a", "t", "e", "d">>)

\* `Slide ${idx + 1}` (idx is 0-based)
SlideN(idx) == Concat(Lit(<<"S", "l", "i", "d", "e", " ">>), Digits(idx + 1))

\* `Slide ${idx + 1} content`
SlideNContent(idx) ==
    Concat(SlideN(idx), Lit(<<" ", "c", "o", "n", "t", "e", "n", "t">>))

\* `Educational illustration for ${topic}`
IllustrationFor(topic) ==
    Concat(Lit(<<"E", "d", "u", "c", "a", "t", "i", "o", "n", "a", "l", " ",
                 "i", "l", "l", "u", "s", "t", "r", "a", "t", "i", "o", "n",
                 " ", "f", "o", "r", " ">>), topic)

\* SplitSentences without .slice(0, 5)
SplitSentencesUncapped(str) ==
    SelectSeq(TrimAll(Split(str, SentenceEnds, TRUE)), NonEmptyStr)

\* string branch: split(/[.!?]+/).map(trim).filter(length > 0).slice(0, 5)
SplitSentences(str) ==
    Slice0(SelectSeq(TrimAll(Split(str, SentenceEnds, TRUE)), NonEmptyStr),
           MaxBullets)

\* CleanItem without .filter(p => p): parts[0] is the text before the first
\* separator, empty or not
CleanItemKeepingEmptyParts(item) ==
    LET cleaned == Trim(item.s)
        parts == TrimAll(Split(cleaned, ClauseSeps, FALSE))
    IN  IF StrLen(cleaned) > MaxBulletLen THEN JStr(parts[1]) ELSE JStr(cleaned)

\* list branch, the map callback: the trimmed item, or for an item longer
\* than 150 characters parts[0], which is undefined (JAbsent) when no part
\* is left
CleanItem(item) ==
    LET cleaned == Trim(item.s)
        parts == SelectSeq(TrimAll(Split(cleaned, ClauseSeps, FALSE)),
                           LAMBDA p : p # <<>>)
    IN  IF StrLen(cleaned) > MaxBulletLen
        THEN IF parts = <<>> THEN JAbsent ELSE JStr(parts[1])
        ELSE JStr(cleaned)

\* list branch: filter(item && typeof item === 'string').map(...)
CleanedItems(items) ==
    LET strings == SelectSeq(items, LAMBDA item : Truthy(item) /\ IsString(item))
    IN  [i \in 1..Len(strings) |-> CleanItem(strings[i])]

\* the last filter reads item.length: a TypeError on undefined
CleanThrows(items) ==
    \E i \in 1..Len(CleanedItems(items)) : ~IsString(CleanedItems(items)[i])

\* list branch result when nothing throws
CleanList(items, idx) ==
    LET kept == SelectSeq(CleanedItems(items), LAMBDA item : StrLen(item.s) > 0)
    IN  IF Len(kept) = 0 THEN <<JStr(SlideNContent(idx))>> ELSE kept

\* slide.content after the if / else-if chain (a value of any other kind is
\* left as it is)
NormalizeContent(content, idx) ==
    CASE ~Truthy(content) -> JList(<<JStr(ContentNotGenerated)>>)
      [] IsString(content) ->
            JList([i \in 1..Len(SplitSentences(content.s)) |->
                      JStr(SplitSentences(content.s)[i])])
      [] IsArray(content) -> JList(CleanList(content.items, idx))
      [] OTHER -> content

\* x || fallback
OrElse(v, fallback) == IF Truthy(v) THEN v ELSE fallback

\* the map callback; throws exactly when the list branch does
SlideThrows(slide) ==
    Truthy(slide.content) /\ IsArray(slide.content)
        /\ CleanThrows(slide.content.items)

NormalizeSlide(slide, idx, topic) ==
    [content |-> NormalizeContent(slide.content, idx),
     title |-> OrElse(slide.title, JStr(SlideN(idx))),
     speaker_notes |-> OrElse(slide.speaker_notes, JStr(<<>>)),
     image_prompt |-> OrElse(slide.image_prompt, JStr(IllustrationFor(topic)))]

\* lessonData.slides.map(...), idx 0-based
NormalizeSlides(seq, topic) ==
    [i \in 1..Len(seq) |-> NormalizeSlide(seq[i], i - 1, topic)]

NormalizeThrows(seq) == \E i \in 1..Len(seq) : SlideThrows(seq[i])


(***************************************************************************)
(* JavaScript numbers, in halves: [nan, twice] is NaN or twice / 2.        *)
(***************************************************************************)
NaN == [nan |-> TRUE, twice |-> 0]
Fin(twice) == [nan |-> FALSE, twice |-> twice]
\* an integer of the program as a number
Whole(k) == Fin(2 * k)
IsInteger(x) == ~x.nan /\ x.twice % 2 = 0

IsDigit(ch) == \E d \in 0..9 : DigitChar(d) = ch
DigitOf(ch) == CHOOSE d \in 0..9 : DigitChar(d) = ch

RECURSIVE DecValue(_, _)
DecValue(str, acc) ==
    IF str = <<>> THEN acc
    ELSE DecValue(IF Head(str).n = 1 THEN Tail(str)
                  ELSE <<Run(Head(str).c, Head(str).n - 1)>> \o Tail(str),
                  10 * acc + DigitOf(Head(str).c))

\* Number(string) for strings of digits, letters and blanks: blank is 0,
\* an unsigned decimal integer is its value, anything else NaN
StrToNumber(str) ==
    LET body == Trim(str)
    IN  IF body = <<>> THEN Whole(0)
        ELSE IF \A i \in 1..Len(body) : IsDigit(body[i].c)
             THEN Whole(DecValue(body, 0))
             ELSE NaN

\* Number([x]) is Number(String(x)): null and undefined print as ""
ItemToNumber(item) ==
    CASE item.t \in {"absent", "null"} -> Whole(0)
      [] item.t = "num" -> Fin(item.num)
      [] item.t = "str" -> StrToNumber(item.s)
      [] OTHER -> NaN

\* Number(v)
ToNumber(v) ==
    CASE v.t = "absent" -> NaN
      [] v.t = "null" -> Whole(0)
      [] v.t = "bool" -> Whole(v.num)
      [] v.t = "num" -> Fin(v.num)
      [] v.t = "str" -> StrToNumber(v.s)
      [] v.t = "list" -> IF v.items = <<>> THEN Whole(0)
                         ELSE IF Len(v.items) = 1 THEN ItemToNumber(v.items[1])
                         ELSE NaN
      [] OTHER -> NaN

\* x || fallback on numbers: NaN and 0 are falsy
NumOr(x, fallback) == IF x.nan \/ x.twice = 0 THEN fallback ELSE x

\* Math.max / Math.min (no NaN reaches them here)
MathMax(x, y) == IF x.twice < y.twice THEN y ELSE x
MathMin(x, y) == IF y.twice < x.twice THEN y ELSE x

\* Math.min(Math.max(Number(slideCount) || 5, 3), 16)
EffectiveSlides(slideCount) ==
    MathMin(MathMax(NumOr(ToNumber(slideCount), Whole(DefaultSlides)),
                    Whole(MinSlides)),
            Whole(MaxSlideCount))

\* Math.min(Math.max(Number(teacherAge) || 30, 20), 70)
EffectiveAge(teacherAge) ==
    MathMin(MathMax(NumOr(ToNumber(teacherAge), Whole(DefaultAge)),
                    Whole(MinAge)),
            Whole(MaxAge))

ToneYoung == "friendly, energetic, modern, relatable"
ToneMid == "clear, structured, supportive, professional"
ToneSenior == "calm, formal, methodical, experienced"

\* age < 30 ? ... : age < 50 ? ... : ...
ToneOf(a) ==
    IF a.twice < 2 * YoungBelow THEN ToneYoung
    ELSE IF a.twice < 2 * MidBelow THEN ToneMid
    ELSE ToneSenior

\* a value of localContext: a string, or a property that lifeContextMap
\* inherits from Object.prototype (a function or an object, named by `text`)
Context(knd, txt) == [kind |-> knd, text |-> txt]
Phrase(txt) == Context("string", txt)
Inherited(name) == Context("inherited", name)
\* before the assignment
NoContext == Context("none", "")

UrbanPhrase ==
    Phrase("city life, apartments, traffic, supermarkets, technology, modern infrastructure")
RuralPhrase ==
    Phrase("villages, farming, family businesses, local markets, agricultural life")
MountainPhrase ==
    Phrase("mountain communities, nature, terraced fields, limited infrastructure")
CoastalPhrase ==
    Phrase("coastal towns, fishing villages, tourism, sea-related activities, ports")
DefaultPhrase == Phrase("everyday student life")

\* property names
KeyUrban == Lit(<<"u", "r", "b", "a", "n">>)
KeyRural == Lit(<<"r", "u", "r", "a", "l">>)
KeyMountain == Lit(<<"m", "o", "u", "n", "t", "a", "i", "n">>)
KeyCoastal == Lit(<<"c", "o", "a", "s", "t", "a", "l">>)
KeyConstructor == Lit(<<"c", "o", "n", "s", "t", "r", "u", "c", "t", "o", "r">>)
KeyToString == Lit(<<"t", "o", "S", "t", "r", "i", "n", "g">>)
KeyValueOf == Lit(<<"v", "a", "l", "u", "e", "O", "f">>)
KeyHasOwnProperty ==
    Lit(<<"h", "a", "s", "O", "w", "n", "P", "r", "o", "p", "e", "r", "t", "y">>)
KeyProto == Lit(<<"_", "_", "p", "r", "o", "t", "o", "_", "_">>)

\* the name of the property of Object.prototype a key selects, "" when it
\* selects none (of those named here)
InheritedName(key) ==
    CASE key = KeyConstructor -> "constructor"
      [] key = KeyToString -> "toString"
      [] key = KeyValueOf -> "valueOf"
      [] key = KeyHasOwnProperty -> "hasOwnProperty"
      [] key = KeyProto -> "__proto__"
      [] OTHER -> ""

RECURSIVE PropertyKey(_)
\* the property key a value is converted to, String(v): arrays join the
\* keys of their items with ",", null and undefined items printing as ""
\* (numbers: the whole non-negative ones)
PropertyKey(v) ==
    CASE v.t = "absent" -> Lit(<<"u", "n", "d", "e", "f", "i", "n", "e", "d">>)
      [] v.t = "null" -> Lit(<<"n", "u", "l", "l">>)
      [] v.t = "bool" -> IF v.num = 1 THEN Lit(<<"t", "r", "u", "e">>)
                         ELSE Lit(<<"f", "a", "l", "s", "e">>)
      [] v.t = "num" -> Digits(v.num \div 2)
      [] v.t = "str" -> v.s
      [] v.t = "list" ->
            IF v.items = <<>> THEN <<>>
            ELSE LET first == IF v.items[1].t \in {"absent", "null"} THEN <<>>
                              ELSE PropertyKey(v.items[1])
                 IN  IF Len(v.items) = 1 THEN first
                     ELSE Concat(Concat(first, Lit(<<",">>)),
                                 PropertyKey(JList(Tail(v.items))))
      [] OTHER -> Lit(<<"[", "o", "b", "j", "e", "c", "t", " ",
                         "O", "b", "j", "e", "c", "t", "]">>)

\* lifeContextMap[key]: an own property, else one inherited from
\* Object.prototype, else undefined (NoContext)
LookUp(key) ==
    CASE key = KeyUrban -> UrbanPhrase
      [] key = KeyRural -> RuralPhrase
      [] key = KeyMountain -> MountainPhrase
      [] key = KeyCoastal -> CoastalPhrase
      [] InheritedName(key) # "" -> Inherited(InheritedName(key))
      [] OTHER -> NoContext

\* lifeContextMap[areaType] || "everyday student life": every value the
\* table holds or inherits is truthy
LocalContextOf(area) ==
    IF LookUp(PropertyKey(area)) = NoContext THEN DefaultPhrase
    ELSE LookUp(PropertyKey(area))

\* !topic || topic.trim().length < 3
TopicRejected(topic) ==
    ~Truthy(topic) \/ StrLen(Trim(topic.s)) < MinTopicLen

\* topic.trim is not a function: a truthy topic that is no string
TopicThrows(topic) == Truthy(topic) /\ ~IsString(topic)


(***************************************************************************)
(* State of one request to POST /api/generate.                             *)
(***************************************************************************)
VARIABLES
    body,         \* req.body: topic, slideCount, teacherAge
    areaType,     \* req.body.areaType
    imagenUrl,    \* process.env.IMAGEN_SERVICE_URL is set
    apiKey,       \* process.env.GOOGLE_API_KEY is set
    pc,           \* where the handler is suspended
    slides,       \* const slides
    age,          \* const age
    tone,         \* const tone
    localContext, \* const localContext
    textCalls,    \* model.generateContent calls made
    generated,    \* what model.generateContent came back with
    lessonData,   \* lessonData.slides after the normalizing map
    healthCalls,  \* fetches of /health made
    probe,        \* what wakeUpImagenService returned: "ready" (true),
                  \* "notready" (false), "none" before it has returned
    imageCalls,   \* fetches of /generate-image made
    ops,          \* the generateImage calls: position 0 (cover) is ops[1]
    deck,         \* slides added to pres
    responses     \* responses sent on res

vars == <<body, areaType, imagenUrl, apiKey, pc, slides, age, tone, localContext, textCalls, generated,
          lessonData, healthCalls, probe, imageCalls, ops, deck, responses>>

\* res.status(s).json({...}) / res.json({...})
Resp(st, ok, knd, msg, count, images) ==
    [status |-> st, success |-> ok, kind |-> knd, message |-> msg,
     slideCount |-> count, imagesGenerated |-> images]

\* res.status(400).json({ success: false, error: "Topic must be ..." })
ValidationResp ==
    Resp(400, FALSE, "validation", "Topic must be at least 3 characters", 0, 0)

\* res.status(500).json({ success: false, error: "Server configuration ..." })
ConfigResp ==
    Resp(500, FALSE, "config", "Server configuration error - API key missing", 0, 0)

\* the catch block: "Lesson generation failed: " + err.message
FailedResp(errMessage) == Resp(500, FALSE, "failed", errMessage, 0, 0)

\* res.json({ success: true, file, preview: { slideCount, imagesGenerated } })
SuccessResp(count, images) == Resp(200, TRUE, "ok", "", count, images)

(***************************************************************************)
(* 1. Validation and 2. pedagogical adaptation, up to the await of         *)
(* model.generateContent(prompt).                                          *)
(***************************************************************************)
ReceiveRequest ==
    /\ pc = "received"
    /\ IF TopicThrows(body.topic)
       THEN /\ responses' = Append(responses,
                                   FailedResp("topic.trim is not a function"))
            /\ pc' = "done"
            /\ UNCHANGED <<slides, age, tone, localContext, textCalls>>
       ELSE IF TopicRejected(body.topic)
       THEN /\ responses' = Append(responses, ValidationResp)
            /\ pc' = "done"
            /\ UNCHANGED <<slides, age, tone, localContext, textCalls>>
       ELSE IF ~apiKey
       THEN /\ responses' = Append(responses, ConfigResp)
            /\ pc' = "done"
            /\ UNCHANGED <<slides, age, tone, localContext, textCalls>>
       ELSE /\ slides' = EffectiveSlides(body.slideCount)
            /\ age' = EffectiveAge(body.teacherAge)
            /\ tone' = ToneOf(EffectiveAge(body.teacherAge))
            /\ localContext' = LocalContextOf(areaType)
            /\ textCalls' = textCalls + 1
            /\ pc' = "generating"
            /\ UNCHANGED responses
    /\ UNCHANGED <<body, areaType, imagenUrl, apiKey, generated, lessonData, healthCalls, probe,
                   imageCalls, ops, deck>>

(***************************************************************************)
(* 3. The text-generation call returns: parse, check and normalize.        *)
(* A result is [rejects, fence, wellformed, slidesTag, slides]: the call   *)
(* throws, or gives a text that may carry ``` fences and may be malformed  *)
(* JSON; slidesTag is the kind of the parsed object's slides field.        *)
(***************************************************************************)
\* text.replace(/```json/g, '').replace(/```/g, '').trim()
cleanJSON(text) == [text EXCEPT !.fence = FALSE]

\* ParseThrows with a parser that swallows its errors
ParseSwallowsErrors(text) == FALSE

\* JSON.parse throws a SyntaxError
ParseThrows(text) == text.fence \/ ~text.wellformed

\* SlidesInvalid without the Array.isArray test
SlidesMissing(obj) == obj.slidesTag \in {"absent", "null"}

\* !lessonData.slides || !Array.isArray(lessonData.slides)
SlidesInvalid(obj) == obj.slidesTag # "list"

\* err.message reaching the catch block, "" when nothing is thrown
GenerateError(result) ==
    IF result.rejects THEN "generateContent failed"
    ELSE IF ParseThrows(cleanJSON(result)) THEN "Unexpected token in JSON"
    ELSE IF SlidesInvalid(result) THEN "Invalid lesson data: missing slides array"
    ELSE IF NormalizeThrows(result.slides)
         THEN "Cannot read properties of undefined (reading 'length')"
    ELSE ""

GenerateReturns(results) ==
    /\ pc = "generating"
    /\ \E result \in results :
          /\ generated' = result
          /\ IF GenerateError(result) # ""
             THEN /\ responses' = Append(responses,
                                     FailedResp(GenerateError(result)))
                  /\ pc' = "done"
                  /\ UNCHANGED lessonData
             ELSE /\ lessonData' = NormalizeSlides(result.slides, body.topic.s)
                  /\ pc' = "wake"
                  /\ UNCHANGED responses
    /\ UNCHANGED <<body, areaType, imagenUrl, apiKey, slides, age, tone, localContext, textCalls,
                   healthCalls, probe, imageCalls, ops, deck>>


(***************************************************************************)
(* 4. Images: the wake-up probe, then one generateImage call per position  *)
(* (0 is the cover, i is slide i - 1), awaited with Promise.all.           *)
(***************************************************************************)
\* the value wakeUpImagenService returns for an outcome of its fetch:
\* response.ok && data.api_key_set, and false from the catch block
ProbeResult(outcome) == IF outcome = "ok" THEN "ready" ELSE "notready"

\* AfterProbe giving up the request when the probe did not succeed
AfterProbeAbortsUnlessReady(result) ==
    IF result = "ready" THEN "spawn" ELSE "done"

\* where the handler goes on after `await wakeUpImagenService();`: the
\* value is dropped
AfterProbe(result) == "spawn"

\* await wakeUpImagenService(): returns false at once when the URL is not
\* set, else fetches /health with a 60 s abort timer
WakeUp ==
    /\ pc = "wake"
    /\ IF imagenUrl
       THEN /\ healthCalls' = healthCalls + 1
            /\ pc' = "waking"
            /\ UNCHANGED probe
       ELSE /\ probe' = "notready"
            /\ pc' = AfterProbe("notready")
            /\ UNCHANGED healthCalls
    /\ UNCHANGED <<body, areaType, imagenUrl, apiKey, slides, age, tone, localContext, textCalls,
                   generated, lessonData, imageCalls, ops, deck, responses>>

\* what the /health fetch can do; every one ends in a boolean that the
\* handler drops
HealthOutcomes ==
    {"ok",        \* ok, data.api_key_set truthy
     "nokey",     \* ok, data.api_key_set falsy
     "status",    \* !response.ok, a JSON body
     "badjson",   \* response.json() throws
     "neterr",    \* fetch throws
     "abort"}     \* the 60 s timer aborts the fetch

\* how the probe ends once its fetch has resolved
HealthBodyOutcomes == {"ok", "nokey", "status", "badjson"}

\* the probe returns to the handler
ProbeEnds(outcome) ==
    /\ outcome \in HealthOutcomes
    /\ probe' = ProbeResult(outcome)
    /\ pc' = AfterProbe(ProbeResult(outcome))
    /\ UNCHANGED <<body, areaType, imagenUrl, apiKey, slides, age, tone, localContext, textCalls,
                   generated, lessonData, healthCalls, imageCalls, ops, deck,
                   responses>>

\* the fetch of /health resolves with the response headers: clearTimeout,
\* then response.json() reads the body with no timer left
HealthFetchResolves ==
    /\ pc = "waking"
    /\ pc' = "wakingbody"
    /\ UNCHANGED <<body, areaType, imagenUrl, apiKey, slides, age, tone, localContext, textCalls,
                   generated, lessonData, healthCalls, probe, imageCalls, ops,
                   deck, responses>>

\* the fetch of /health throws a network error: the catch block
HealthFetchThrows == pc = "waking" /\ ProbeEnds("neterr")

\* the 60 s timer fires before the fetch has resolved: AbortError, the
\* catch block
HealthTimeoutAborts == pc = "waking" /\ ProbeEnds("abort")

\* response.json() settles
HealthBodyArrives ==
    /\ pc = "wakingbody"
    /\ \E outcome \in HealthBodyOutcomes : ProbeEnds(outcome)

\* `Modern educational cover illustration for ${topic}, ...`: a non-empty
\* string whatever the topic
CoverPrompt(topic) ==
    JStr(Concat(Lit(<<"c", "o", "v", "e", "r", " ">>), topic))

\* the prompt of position p (0-based)
PromptAt(p) ==
    IF p = 0 THEN CoverPrompt(body.topic.s) ELSE lessonData[p].image_prompt

\* a generateImage call: st is "fetch" (a request in flight, its abort timer
\* armed), "body" (response.ok, the timer cleared, response.json() in
\* flight), "errbody" (!response.ok, the timer cleared, response.text() in
\* flight), "backoff" (waiting `wait` ms before the next attempt), "image"
\* or "null" (returned) or "rejected" (threw); attempt is the loop variable
\* while the loop runs
Op(state, att, delay) == [st |-> state, attempt |-> att, wait |-> delay]

\* generateImage(prompt) up to its first await: null without a prompt or
\* without the service URL, a TypeError from prompt.substring on a prompt
\* that is no string, else the first fetch is in flight
StartOp(prompt) ==
    IF ~Truthy(prompt) THEN Op("null", 0, 0)
    ELSE IF ~imagenUrl THEN Op("null", 0, 0)
    ELSE IF ~IsString(prompt) THEN Op("rejected", 0, 0)
    ELSE Op("fetch", 0, 0)

IsFetching(op) == op.st = "fetch"
IsRejected(op) == op.st = "rejected"
\* IsSettled taking an operation that waits for its next attempt as returned
IsSettledOrWaiting(op) == op.st \in {"image", "null", "backoff"}
IsSettled(op) == op.st \in {"image", "null"}

\* imagePromises = [generateImage(coverPrompt), ...slides.map(...)];
\* Promise.all rejects as soon as one of them is rejected, and the catch
\* block answers
StartImages ==
    /\ pc = "spawn"
    /\ LET started == [i \in 1..(Len(lessonData) + 1) |-> StartOp(PromptAt(i - 1))]
       IN  /\ ops' = started
           /\ imageCalls' = imageCalls
                              + Cardinality({i \in 1..Len(started) : IsFetching(started[i])})
           /\ IF \E i \in 1..Len(started) : IsRejected(started[i])
              THEN /\ responses' = Append(responses,
                                     FailedResp("prompt.substring is not a function"))
                   /\ pc' = "done"
              ELSE /\ pc' = "fanout"
                   /\ UNCHANGED responses
    /\ UNCHANGED <<body, areaType, imagenUrl, apiKey, slides, age, tone, localContext, textCalls,
                   generated, lessonData, healthCalls, probe, deck>>

\* what one fetch of /generate-image can do
ImageOutcomes ==
    {"image",      \* ok, data.image longer than 100 characters
     "small",      \* ok, data.image missing or at most 100 characters
     "badjson",    \* ok, response.json() throws
     "status",     \* !response.ok, the error text is read
     "badtext",    \* !response.ok, response.text() throws
     "neterr",     \* fetch throws
     "abort"}      \* the timeout aborts the fetch

\* how an attempt can end once its fetch has resolved: response.json() of
\* an ok response, response.text() of an error response
BodyOutcomes(st) ==
    IF st = "body" THEN {"image", "small", "badjson"} ELSE {"status", "badtext"}

\* attempt === 0 ? 90000 : 45000
TimeoutDuration(attempt) == IF attempt = 0 THEN 90000 ELSE 45000

\* BackoffOf with the two delays exchanged
BackoffSwapped(outcome) == IF outcome = "status" THEN 2000 ELSE 3000

\* the delay before the next attempt: 3000 after an error status, 2000 in
\* the catch block
BackoffOf(outcome) == IF outcome = "status" THEN 3000 ELSE 2000

\* AfterAttempt for a loop that runs one pass more than `retries` allows
AfterAttemptOneMore(op, outcome) ==
    CASE outcome = "image" -> Op("image", 0, 0)
      [] outcome = "small" -> Op("null", 0, 0)
      [] OTHER -> IF op.attempt < Retries + 1
                  THEN Op("backoff", op.attempt, BackoffOf(outcome))
                  ELSE Op("null", 0, 0)

\* one pass of the for loop after its attempt has ended
AfterAttempt(op, outcome) ==
    CASE outcome = "image" -> Op("image", 0, 0)
      [] outcome = "small" -> Op("null", 0, 0)
      [] OTHER -> IF op.attempt < Retries
                  THEN Op("backoff", op.attempt, BackoffOf(outcome))
                  ELSE Op("null", 0, 0)

\* the fetch of attempt `attempt` resolves with the response headers:
\* clearTimeout(timeout), then the body is read with no timer left
FetchResolves(i) ==
    /\ i \in 1..Len(ops)
    /\ ops[i].st = "fetch"
    /\ ops' \in {[ops EXCEPT ![i] = Op(st, ops[i].attempt, 0)] :
                    st \in {"body", "errbody"}}
    /\ UNCHANGED <<body, areaType, imagenUrl, apiKey, pc, slides, age, tone, localContext, textCalls,
                   generated, lessonData, healthCalls, probe, imageCalls, deck,
                   responses>>

\* the fetch throws a network error: the catch block
FetchThrows(i) ==
    /\ i \in 1..Len(ops)
    /\ ops[i].st = "fetch"
    /\ ops' = [ops EXCEPT ![i] = AfterAttempt(ops[i], "neterr")]
    /\ UNCHANGED <<body, areaType, imagenUrl, apiKey, pc, slides, age, tone, localContext, textCalls,
                   generated, lessonData, healthCalls, probe, imageCalls, deck,
                   responses>>

\* the timer of TimeoutDuration(attempt) ms fires before the fetch has
\* resolved: controller.abort(), AbortError, the catch block
TimeoutAborts(i) ==
    /\ i \in 1..Len(ops)
    /\ ops[i].st = "fetch"
    /\ TimeoutDuration(ops[i].attempt) > 0
    /\ ops' = [ops EXCEPT ![i] = AfterAttempt(ops[i], "abort")]
    /\ UNCHANGED <<body, areaType, imagenUrl, apiKey, pc, slides, age, tone, localContext, textCalls,
                   generated, lessonData, healthCalls, probe, imageCalls, deck,
                   responses>>

\* response.json() or response.text() settles and the pass ends
BodyArrives(i) ==
    /\ i \in 1..Len(ops)
    /\ ops[i].st \in {"body", "errbody"}
    /\ ops' \in {[ops EXCEPT ![i] = AfterAttempt(ops[i], outcome)] :
                    outcome \in BodyOutcomes(ops[i].st)}
    /\ UNCHANGED <<body, areaType, imagenUrl, apiKey, pc, slides, age, tone, localContext, textCalls,
                   generated, lessonData, healthCalls, probe, imageCalls, deck,
                   responses>>

\* the backoff timer fires: attempt++ and the next fetch
BackoffElapses(i) ==
    /\ i \in 1..Len(ops)
    /\ ops[i].st = "backoff"
    /\ ops' = [ops EXCEPT ![i] = Op("fetch", ops[i].attempt + 1, 0)]
    /\ imageCalls' = imageCalls + 1
    /\ UNCHANGED <<body, areaType, imagenUrl, apiKey, pc, slides, age, tone, localContext, textCalls,
                   generated, lessonData, healthCalls, probe, deck, responses>>

(***************************************************************************)
(* 5. Deck assembly once Promise.all has resolved, and 6. export.          *)
(***************************************************************************)
\* an image result: the payload returned for position `of`, or null
Img(present, position) == [has |-> present, of |-> position]

\* allImages, in the order of imagePromises
AllImages == [i \in 1..Len(ops) |-> Img(ops[i].st = "image", i - 1)]

\* const [coverImg, ...slideImages] = allImages
CoverImg(all) == all[1]
\* SlideImage without the cover taken off the front of allImages
SlideImageWithCover(all, index) == all[index + 1]

\* slideImages[index], index 0-based
SlideImage(all, index) == all[index + 2]

\* SuccessCount without the filter: allImages.length
SuccessCountUnfiltered(all) == Len(all)

\* allImages.filter(img => img !== null).length
SuccessCount(all) == Cardinality({i \in 1..Len(all) : all[i].has})

\* img && img.startsWith('data:image')
HasImage(img) == img.has

DeckSlide(knd, index, img) ==
    [kind |-> knd, slide |-> index,
     image |-> IF HasImage(img) THEN img ELSE Img(FALSE, 0)]

\* s.content.map(...) is a TypeError unless s.content is an array
ContentThrows(s) == ~IsArray(s.content)

\* BuiltSlides leaving out the content slides that have no image
BuiltSlidesDroppingImageless(lesson, all) ==
    <<DeckSlide("title", 0, all[1])>>
      \o SelectSeq([i \in 1..Len(lesson) |-> DeckSlide("content", i - 1, all[i + 1])],
                   LAMBDA d : d.image.has)

\* the slides added to pres: the title slide, then the content slides in
\* order up to (and with) the first one whose content.map throws
BuiltSlides(lesson, all) ==
    LET firstBad == IF \E i \in 1..Len(lesson) : ContentThrows(lesson[i])
                    THEN CHOOSE i \in 1..Len(lesson) :
                            /\ ContentThrows(lesson[i])
                            /\ \A j \in 1..(i - 1) : ~ContentThrows(lesson[j])
                    ELSE Len(lesson)
    IN  <<DeckSlide("title", 0, CoverImg(all))>>
          \o [i \in 1..firstBad |-> DeckSlide("content", i - 1, SlideImage(all, i - 1))]

BuildDeck ==
    /\ pc = "fanout"
    /\ \A i \in 1..Len(ops) : IsSettled(ops[i])
    /\ deck' = BuiltSlides(lessonData, AllImages)
    /\ IF \E i \in 1..Len(lessonData) : ContentThrows(lessonData[i])
       THEN /\ responses' = Append(responses,
                                   FailedResp("s.content.map is not a function"))
            /\ pc' = "done"
       ELSE /\ pc' = "export"
            /\ UNCHANGED responses
    /\ UNCHANGED <<body, areaType, imagenUrl, apiKey, slides, age, tone, localContext, textCalls,
                   generated, lessonData, healthCalls, probe, imageCalls, ops>>

\* await pres.write(...) resolves; res.json({ success: true, ... })
ExportReturns ==
    /\ pc = "export"
    /\ responses' = Append(responses,
                           SuccessResp(Len(lessonData), SuccessCount(AllImages)))
    /\ pc' = "done"
    /\ UNCHANGED <<body, areaType, imagenUrl, apiKey, slides, age, tone, localContext, textCalls,
                   generated, lessonData, healthCalls, probe, imageCalls, ops, deck>>


(***************************************************************************)
(* Inputs.                                                                 *)
(***************************************************************************)
SeqsUpTo(S, k) == UNION {[1..n -> S] : n \in 0..k}

\* run-length encoded strings of at most k runs over the given characters
\* and run lengths
StringsOver(chars, lens, k) ==
    {str \in SeqsUpTo({Run(ch, n) : ch \in chars, n \in lens}, k) :
        \A i \in 1..(Len(str) - 1) : str[i].c # str[i + 1].c}

\* a letter, a blank, and the punctuation the normalizer looks at
ContentChars == {"a", " ", ".", "!", "?", ":", ";"}

\* raw strings: runs of one character or of 150
RawStrings == StringsOver(ContentChars, {1, MaxBulletLen}, MaxRuns)

\* a sentence and its terminator: "a.", "b!" and the blank sentence " ?"
Pieces == {Lit(<<"a", ".">>), Lit(<<"b", "!">>), Lit(<<" ", "?">>)}

RECURSIVE JoinAll(_)
\* the pieces of a sequence, concatenated
JoinAll(seq) == IF seq = <<>> THEN <<>> ELSE Concat(Head(seq), JoinAll(Tail(seq)))

\* raw strings of up to MaxFragments sentences
FragmentStrings ==
    {JoinAll(seq) : seq \in SeqsUpTo(Pieces, MaxFragments) \ {<<>>}}

\* items of the longer raw lists: a number, an empty string, a blank string
\* and a one-letter string
SimpleItems ==
    {JNum(10), JStr(<<>>), JStr(<<Run(" ", 1)>>), JStr(<<Run("a", 1)>>)}

\* raw values of slide.content
RawContents ==
    {JAbsent, JNull, JNum(0), JNum(10), JBool(FALSE), JBool(TRUE), JObj}
        \cup {JStr(str) : str \in RawStrings}
        \cup {JStr(str) : str \in FragmentStrings}
        \cup {JList(<<JStr(str)>>) : str \in RawStrings}
        \cup {JList(items) : items \in SeqsUpTo(SimpleItems, MaxItems)}

Slide(content, title, notes, prompt) ==
    [content |-> content, title |-> title, speaker_notes |-> notes,
     image_prompt |-> prompt]

Word == <<Run("a", 1)>>

\* a slide as the prompt asks for it
PlainSlide == Slide(JList(<<JStr(Word)>>), JStr(Word), JStr(Word), JStr(Word))

\* slides that differ from it in one field
OddSlides ==
    {Slide(JList(<<JStr(Word)>>), JAbsent, JAbsent, JAbsent),
     Slide(JList(<<JStr(Word)>>), JStr(Word), JStr(Word), JNum(84)),
     Slide(JNum(10), JStr(Word), JStr(Word), JStr(Word))}

\* lessons of at most MaxSlides slides: plain slides, the last one possibly odd
Lessons ==
    {seq \in SeqsUpTo({PlainSlide} \cup OddSlides, MaxSlides) :
        \A i \in 1..(Len(seq) - 1) : seq[i] = PlainSlide}

GenResult(throws, fenced, wf, tag, seq) ==
    [rejects |-> throws, fence |-> fenced, wellformed |-> wf,
     slidesTag |-> tag, slides |-> seq]

\* no call has returned yet
NoResult == GenResult(FALSE, FALSE, FALSE, "none", <<>>)

\* kinds of a parsed object's slides field that is no array: not there,
\* null, an object, a string, a number
NoSlidesTags == {"absent", "null", "obj", "str", "num"}

\* what generateContent can come back with: the call throws; a text that is
\* no JSON (truncated, or a lesson wrapped in prose), with or without
\* fences; an object without a slides array; a lesson, with or without fences
GenResults ==
    {GenResult(TRUE, FALSE, FALSE, "absent", <<>>)}
        \cup {GenResult(FALSE, fenced, FALSE, "absent", <<>>) : fenced \in BOOLEAN}
        \cup {GenResult(FALSE, fenced, FALSE, "list", <<PlainSlide>>) : fenced \in BOOLEAN}
        \cup {GenResult(FALSE, FALSE, TRUE, tag, <<>>) : tag \in NoSlidesTags}
        \cup {GenResult(FALSE, fenced, TRUE, "list", <<PlainSlide>>) : fenced \in BOOLEAN}
        \cup {GenResult(FALSE, FALSE, TRUE, "list", seq) : seq \in Lessons}

\* one-slide lessons over every raw content, with and without the other
\* fields
NormResults ==
    {GenResult(FALSE, FALSE, TRUE, "list", <<Slide(content, f, f, f)>>) :
        content \in RawContents, f \in {JAbsent, JStr(Word)}}

\* values of req.body.topic
Topics ==
    {JAbsent, JNull, JNum(246), JBool(TRUE), JObj, JList(<<>>), JStr(<<>>),
     JStr(<<Run("a", 2)>>),
     JStr(<<Run(" ", 2), Run("a", 2), Run(" ", 1)>>),
     JStr(<<Run("a", 3)>>)}

Body(topic, slideCount, teacherAge) ==
    [topic |-> topic, slideCount |-> slideCount, teacherAge |-> teacherAge]

InitAreas(bodies, areaTypes) ==
    /\ body \in bodies
    /\ areaType \in areaTypes
    /\ imagenUrl \in BOOLEAN
    /\ apiKey \in BOOLEAN
    /\ pc = "received"
    /\ slides = NaN
    /\ age = NaN
    /\ tone = ""
    /\ localContext = NoContext
    /\ textCalls = 0
    /\ generated = NoResult
    /\ lessonData = <<>>
    /\ healthCalls = 0
    /\ probe = "none"
    /\ imageCalls = 0
    /\ ops = <<>>
    /\ deck = <<>>
    /\ responses = <<>>

\* requests that give no areaType
InitWith(bodies) == InitAreas(bodies, {JAbsent})

\* a request for 3 slides
Init == InitWith({Body(topic, JNum(6), JAbsent) : topic \in Topics})

Next ==
    \/ ReceiveRequest
    \/ GenerateReturns(GenResults)
    \/ WakeUp
    \/ HealthFetchResolves
    \/ HealthFetchThrows
    \/ HealthTimeoutAborts
    \/ HealthBodyArrives
    \/ StartImages
    \/ \E i \in 1..(MaxSlides + 1) : FetchResolves(i)
    \/ \E i \in 1..(MaxSlides + 1) : FetchThrows(i)
    \/ \E i \in 1..(MaxSlides + 1) : TimeoutAborts(i)
    \/ \E i \in 1..(MaxSlides + 1) : BodyArrives(i)
    \/ \E i \in 1..(MaxSlides + 1) : BackoffElapses(i)
    \/ BuildDeck
    \/ ExportReturns

\* the whole pipeline
Spec == Init /\ [][Next]_vars

\* what the code's scheduling guarantees: a handler that can go on does, the
\* text-generation call returns, and a timer that is armed fires (the abort
\* timers of the probe and of each attempt, the backoff timers).  Nothing is
\* assumed of the image service: it may never answer, and it may send the
\* headers of a response and never finish the body.
Fairness ==
    /\ WF_vars(ReceiveRequest)
    /\ WF_vars(GenerateReturns(GenResults))
    /\ WF_vars(WakeUp)
    /\ WF_vars(HealthTimeoutAborts)
    /\ WF_vars(StartImages)
    /\ \A i \in 1..(MaxSlides + 1) : WF_vars(TimeoutAborts(i))
    /\ \A i \in 1..(MaxSlides + 1) : WF_vars(BackoffElapses(i))
    /\ WF_vars(BuildDeck)
    /\ WF_vars(ExportReturns)

\* the whole pipeline with its timers and continuations running
SpecLive == Init /\ [][Next]_vars /\ Fairness

NextNorm ==
    \/ ReceiveRequest
    \/ GenerateReturns(NormResults)

\* the pipeline up to the normalized lesson, over every raw content
SpecNorm == Init /\ [][NextNorm]_vars

\* values of req.body.slideCount and req.body.teacherAge: every half from
\* -MaxRequested to MaxRequested, and values that are no numbers
RequestedValues ==
    {JNum(h) : h \in (-2 * MaxRequested)..(2 * MaxRequested)}
        \cup {JAbsent, JNull, JBool(FALSE), JBool(TRUE), JObj, JList(<<>>),
              JList(<<JNum(9)>>), JStr(<<>>), JStr(<<Run(" ", 1)>>), JStr(<<Run("a", 1)>>),
              JStr(<<Run("7", 1)>>), JStr(<<Run("7", 2)>>),
              JStr(<<Run(" ", 1), Run("2", 1), Run(" ", 1)>>)}

ValidTopic == JStr(<<Run("a", 3)>>)

InitParams ==
    InitWith({Body(ValidTopic, v, JAbsent) : v \in RequestedValues}
                 \cup {Body(ValidTopic, JAbsent, v) : v \in RequestedValues})

NextParams == ReceiveRequest

\* validation and adaptation over every requested slide count and age
SpecParams == InitParams /\ [][NextParams]_vars

\* values of req.body.areaType: the four keys of the table, other strings
\* (names of properties of Object.prototype among them) and values that are
\* no strings
AreaTypes ==
    {JAbsent, JNull, JBool(FALSE), JBool(TRUE), JNum(0), JNum(14), JObj,
     JList(<<>>), JList(<<JStr(KeyUrban)>>), JList(<<JNull>>),
     JList(<<JStr(KeyUrban), JStr(KeyRural)>>),
     JStr(<<>>), JStr(KeyUrban), JStr(KeyRural), JStr(KeyMountain),
     JStr(KeyCoastal), JStr(Lit(<<"o", "t", "h", "e", "r">>)),
     JStr(Lit(<<"U", "r", "b", "a", "n">>)),
     JStr(Lit(<<" ", "u", "r", "b", "a", "n">>)),
     JStr(Lit(<<"n", "u", "l", "l">>)),
     JStr(KeyConstructor), JStr(KeyToString), JStr(KeyValueOf),
     JStr(KeyHasOwnProperty), JStr(KeyProto)}

InitContext == InitAreas({Body(ValidTopic, JAbsent, JAbsent)}, AreaTypes)

NextContext == ReceiveRequest

\* validation and adaptation over every areaType
SpecContext == InitContext /\ [][NextContext]_vars

(***************************************************************************)
(* Claims.                                                                 *)
(***************************************************************************)
\* the handler has parsed and normalized the lesson
Normalized ==
    pc \in {"wake", "waking", "wakingbody", "spawn", "fanout", "export"}
        \/ ops # <<>>

\* the last response sent
LastResp == responses[Len(responses)]

Succeeded == pc = "done" /\ responses # <<>> /\ LastResp.success

\* a non-empty sequence of non-empty bullet strings
WellFormedBullets(content) ==
    /\ IsArray(content)
    /\ Len(content.items) >= 1
    /\ \A k \in 1..Len(content.items) :
          IsString(content.items[k]) /\ StrLen(content.items[k].s) > 0

\* C1: after the normalization step every slide's content is a non-empty
\* sequence of non-empty bullet strings, whatever the raw content was.
C1_ContentWellFormed ==
    Normalized =>
        \A i \in 1..Len(lessonData) : WellFormedBullets(lessonData[i].content)

\* C2: the image stage cannot fail the request: once the lesson is
\* normalized every generateImage call resolves to an image or null, never
\* rejects, and the handler goes on to build the deck, so that a failure
\* response sent after normalization can only come from deck assembly.
C2_ImageStageCannotFail ==
    /\ \A i \in 1..Len(ops) : ops[i].st # "rejected"
    /\ (Normalized /\ pc = "done" /\ ~LastResp.success) => deck # <<>>

\* the deck has been assembled from the N + 1 image results
DeckAssembled == pc = "export" \/ Succeeded

\* the result of position p (0-based) as the deck must carry it
ResultAt(p) ==
    IF ops[p + 1].st = "image" THEN Img(TRUE, p) ELSE Img(FALSE, 0)

\* C3: for a lesson of N slides, whichever image operations end in null and
\* in whichever order the N + 1 operations complete, the assembled deck has
\* exactly N + 1 slides, the cover image is the result of position 0,
\* content slide i carries the result of position i + 1, and an image is
\* placed exactly at the positions that did not end in null.
C3_DeckByPosition ==
    DeckAssembled =>
        /\ Len(deck) = Len(lessonData) + 1
        /\ deck[1].kind = "title"
        /\ deck[1].image = ResultAt(0)
        /\ \A i \in 0..(Len(lessonData) - 1) :
              /\ deck[i + 2].kind = "content"
              /\ deck[i + 2].slide = i
              /\ deck[i + 2].image = ResultAt(i + 1)
        /\ \A p \in 0..Len(lessonData) :
              deck[p + 1].image.has <=> ops[p + 1].st # "null"

\* a deck of MaxSlides + 1 slides is assembled with the image of position 1
\* missing and those of positions 0 and MaxSlides placed
C3_Witness ==
    /\ DeckAssembled
    /\ Len(lessonData) = MaxSlides
    /\ ops[1].st = "image"
    /\ ops[2].st = "null"
    /\ ops[MaxSlides + 1].st = "image"

\* the text that came back is no JSON once its fences are stripped
Malformed == generated.slidesTag # "none" /\ ~generated.rejects
                 /\ ~generated.wellformed

\* C4: malformed upstream text makes the request fail with exactly one error
\* response (status 500, success false, the parser's message); no image
\* request is issued, no deck is built and no success payload is sent.
C4_MalformedFailsOnce ==
    Malformed =>
        /\ pc = "done"
        /\ Len(responses) = 1
        /\ responses[1].status = 500
        /\ ~responses[1].success
        /\ responses[1].message = "Unexpected token in JSON"
        /\ imageCalls = 0
        /\ healthCalls = 0
        /\ ops = <<>>
        /\ deck = <<>>

\* a lesson wrapped in prose came back and the request has failed
C4_Witness ==
    /\ Malformed
    /\ generated.slides # <<>>
    /\ responses # <<>>

\* the topic is missing or is not a string of at least 3 characters after
\* trimming
TopicInvalid(topic) ==
    topic.t \in {"absent", "null"}
        \/ ~IsString(topic)
        \/ StrLen(Trim(topic.s)) < MinTopicLen

\* C5: a request whose topic is missing or is not a string of at least 3
\* characters after trimming is answered with a 4xx validation error, and no
\* text-generation call and no image call is made for it.
C5_InvalidTopicIs4xx ==
    (TopicInvalid(body.topic) /\ pc # "received") =>
        /\ pc = "done"
        /\ Len(responses) = 1
        /\ responses[1].status \in 400..499
        /\ textCalls = 0
        /\ imageCalls = 0
        /\ healthCalls = 0

\* C6: when the image service URL is not configured, every otherwise valid
\* request whose text generation succeeded completes with a success response
\* in which every image is absent and imagesGenerated is 0, and no HTTP
\* request to the image service (health probe or generate-image) is issued.
C6_UnconfiguredSucceeds ==
    (~imagenUrl /\ Normalized) =>
        /\ imageCalls = 0
        /\ healthCalls = 0
        /\ pc = "done" =>
              /\ LastResp.success
              /\ LastResp.imagesGenerated = 0
              /\ \A i \in 1..Len(deck) : ~deck[i].image.has

\* C7: for a request with effective slide count n the pipeline produces a
\* lesson of exactly n slides and a deck of n + 1 slides, for every lesson
\* the text-generation service returns that passes normalization.
C7_ExactlyRequestedSlides ==
    /\ Normalized => Whole(Len(lessonData)) = slides
    /\ Succeeded => Whole(Len(deck)) = Fin(slides.twice + 2)

\* C7 as amended: the lesson after normalization has as many slides as the
\* service returned, whatever n is, and every success response comes with a
\* deck of that many slides plus the title slide and reports that many in
\* preview.slideCount.
C7_DeckFollowsReturnedSlides ==
    /\ Normalized => Len(lessonData) = Len(generated.slides)
    /\ Succeeded =>
          /\ Len(deck) = Len(generated.slides) + 1
          /\ LastResp.slideCount = Len(generated.slides)

\* a success response for a lesson of fewer slides than the n requested
C7_Witness ==
    /\ Succeeded
    /\ Len(generated.slides) > 0
    /\ Whole(Len(generated.slides)) # slides

\* C8: for every requested slideCount the effective slide count is an
\* integer in [3,16]; a numeric request below 3 yields 3 and one above 16
\* yields 16.
C8_SlideCountClamped ==
    pc = "generating" =>
        /\ IsInteger(slides)
        /\ slides.twice >= 2 * MinSlides
        /\ slides.twice <= 2 * MaxSlideCount
        /\ (body.slideCount.t = "num" /\ body.slideCount.num < 2 * MinSlides)
              => slides = Whole(MinSlides)
        /\ (body.slideCount.t = "num" /\ body.slideCount.num > 2 * MaxSlideCount)
              => slides = Whole(MaxSlideCount)

\* C9: for every presenter age outside [20,70], 0 and negative ages
\* included, the age used for tone selection is the nearest bound: below 20
\* the tone is that of age 20, above 70 that of age 70.
C9_AgeClampedToNearestBound ==
    (pc = "generating" /\ body.teacherAge.t = "num") =>
        /\ body.teacherAge.num < 2 * MinAge
              => (age = Whole(MinAge) /\ tone = ToneYoung)
        /\ body.teacherAge.num > 2 * MaxAge
              => (age = Whole(MaxAge) /\ tone = ToneSenior)

\* C10: normalization is idempotent: normalizing the normalized slides (raw
\* content absent, a string or a list) gives the same slides again.
C10_NormalizeIdempotent ==
    (Normalized /\ \A i \in 1..Len(generated.slides) :
                      generated.slides[i].content.t \in {"absent", "str", "list"})
        => /\ ~NormalizeThrows(lessonData)
           /\ NormalizeSlides(lessonData, body.topic.s) = lessonData

\* an attempt of the operation is under way: its request has been sent and
\* the loop pass has not ended
InFlight(op) == op.st \in {"fetch", "body", "errbody"}

\* the attempt of operation i ends in this step
AttemptEnds(i) == InFlight(ops[i]) /\ ~InFlight(ops'[i])

\* the attempt of operation i ends in this step in a failure the loop
\* retries: the fetch throws or is aborted, or the response has an error
\* status
AttemptFails(i) == ops[i].st \in {"fetch", "errbody"} /\ ~InFlight(ops'[i])

\* C11: one generateImage operation makes at most 3 requests (attempts 0, 1
\* and 2, so at most 3 per operation in total); after an error status, a
\* timeout or a network exception with retries left it waits and sends the
\* next request; after a failed third attempt it returns null, and no
\* attempt ever makes it throw.
C11_AtMostThreeRequests ==
    /\ [](/\ \A i \in 1..Len(ops) : ops[i].attempt <= Retries
          /\ imageCalls <= (Retries + 1) * Len(ops))
    /\ [][\A i \in 1..Len(ops) :
             /\ (AttemptFails(i) /\ ops[i].attempt < Retries)
                   => ops'[i].st = "backoff"
             /\ (ops[i].st = "backoff" /\ ops'[i] # ops[i])
                   => /\ ops'[i] = Op("fetch", ops[i].attempt + 1, 0)
                      /\ imageCalls' = imageCalls + 1
             /\ (AttemptFails(i) /\ ops[i].attempt = Retries)
                   => ops'[i].st = "null"
             /\ AttemptEnds(i) => ops'[i].st \in {"backoff", "image", "null"}]_vars

\* the cover image of a lesson without slides has cost 3 requests and ended
\* in null
C11_Witness ==
    /\ Len(ops) = 1
    /\ ops[1].st = "null"
    /\ imageCalls = Retries + 1

\* the text that came back parses to an object whose slides field is
\* missing or is no array
SchemaInvalid ==
    /\ generated.slidesTag \in NoSlidesTags
    /\ ~generated.rejects
    /\ ~ParseThrows(cleanJSON(generated))

\* C12: when the parsed lesson object has no slides field, or its slides is
\* not a sequence, the request fails with exactly one error response (500,
\* 'Invalid lesson data: missing slides array') and no image request, no
\* health probe and no deck is made for it.
C12_NoSlidesFailsOnce ==
    SchemaInvalid =>
        /\ pc = "done"
        /\ Len(responses) = 1
        /\ responses[1].status = 500
        /\ ~responses[1].success
        /\ responses[1].message = "Invalid lesson data: missing slides array"
        /\ imageCalls = 0
        /\ healthCalls = 0
        /\ ops = <<>>
        /\ deck = <<>>

\* a lesson object whose slides is an object, not an array, came back and
\* the request has been answered
C12_Witness ==
    /\ SchemaInvalid
    /\ generated.slidesTag = "obj"
    /\ responses # <<>>

\* C13: after normalization every slide has between 1 and 5 bullets,
\* whether the raw content was a string or a list of any length.
C13_OneToFiveBullets ==
    Normalized =>
        \A i \in 1..Len(lessonData) :
            generated.slides[i].content.t \in {"str", "list"}
                => /\ IsArray(lessonData[i].content)
                   /\ Len(lessonData[i].content.items) >= 1
                   /\ Len(lessonData[i].content.items) <= MaxBullets

\* C14: an attempt that is answered with a success status but a missing or
\* too small payload counts as a failed attempt: with retries left the
\* operation goes on to another attempt, and it returns null only once the
\* last attempt (attempt 2) has ended.
C14_SmallPayloadRetried ==
    [][\A i \in 1..Len(ops) :
          (ops[i].st = "body" /\ ops'[i].st = "null")
              => ops[i].attempt = Retries]_vars

\* generateImage has returned (or thrown) for every position
AllReturned == \A i \in 1..Len(ops) : ops[i].st \in {"image", "null", "rejected"}

\* C15: whatever the image service does (never answering, or stalling after
\* the headers of a response), every generateImage operation that was
\* started eventually returns, and every request eventually gets a response.
C15_ImagesEventuallyReturn ==
    /\ (pc = "fanout") ~> AllReturned
    /\ <>(responses # <<>>)

\* the /health request of the probe is in flight
ProbeInFlight == pc \in {"waking", "wakingbody"}

\* C16: the image requests are issued without waiting for the wake-up probe:
\* while the probe is in flight the generateImage calls have already been
\* made, and whatever the health endpoint does (answering late or never
\* completing) the image fan-out takes place.
C16_ProbeNeverBlocks ==
    /\ [](ProbeInFlight => ops # <<>>)
    /\ (pc = "wake") ~> (ops # <<>>)

\* the probe returns or throws in this step
ProbeReturns == ProbeInFlight /\ pc' \notin {"waking", "wakingbody"}

\* the generateImage calls as they are made for the normalized lesson
StartedOps == [i \in 1..(Len(lessonData) + 1) |-> StartOp(PromptAt(i - 1))]

\* C17: the probe never aborts the pipeline and its result is ignored:
\* whichever way the health request ends, wakeUpImagenService returns to the
\* handler (a boolean, nothing thrown, no response sent), the handler then
\* makes one generateImage call per position exactly as the lesson
\* dictates, and the response is the one the lesson and the image results
\* dictate, whether the probe returned true or false.
C17_ProbeResultIgnored ==
    /\ [](probe \in {"none", "ready", "notready"})
    /\ [][ProbeReturns =>
             /\ pc' = "spawn"
             /\ probe' \in {"ready", "notready"}
             /\ responses' = responses]_vars
    /\ [][pc = "spawn" => ops' = StartedOps]_vars
    /\ []((pc = "done" /\ ops # <<>> /\ AllReturned) =>
             LastResp = IF \E i \in 1..Len(ops) : IsRejected(ops[i])
                        THEN FailedResp("prompt.substring is not a function")
                        ELSE IF \E i \in 1..Len(lessonData) :
                                   ContentThrows(lessonData[i])
                        THEN FailedResp("s.content.map is not a function")
                        ELSE SuccessResp(Len(lessonData), SuccessCount(AllImages)))

\* the probe returned false, and the request still ended in a success
\* response that reports an image for every position
C17_Witness ==
    /\ probe = "notready"
    /\ healthCalls = 1
    /\ Succeeded
    /\ Len(ops) = MaxSlides + 1
    /\ LastResp.imagesGenerated = MaxSlides + 1

\* C18: all N + 1 generateImage calls are made in one step, before the
\* handler awaits any of them; the deck is assembled only after every one of
\* them has returned; and a step of one operation, its returning null
\* included, leaves every sibling as it is and able to go on.
C18_FanOutBarrier ==
    /\ [][(ops = <<>> /\ ops' # <<>>) =>
             /\ Len(ops') = Len(lessonData) + 1
             /\ \A i \in 1..Len(ops') :
                   ops'[i].st \in {"fetch", "null", "rejected"}
             /\ deck' = <<>>]_vars
    /\ []((deck # <<>> \/ pc = "export") =>
             /\ Len(ops) = Len(lessonData) + 1
             /\ \A i \in 1..Len(ops) : ops[i].st \in {"image", "null"})
    /\ [][\A i \in 1..Len(ops) :
             (ops'[i] # ops[i]) =>
                 \A j \in 1..Len(ops) : j # i => ops'[j] = ops[j]]_vars
    /\ [](\A j \in 1..Len(ops) :
             /\ ops[j].st = "fetch" => ENABLED TimeoutAborts(j)
             /\ ops[j].st = "backoff" => ENABLED BackoffElapses(j))

\* the cover operation has returned null while the operation of the first
\* slide is on its last attempt and no deck has been started
C18_Witness ==
    /\ pc = "fanout"
    /\ Len(ops) = MaxSlides + 1
    /\ ops[1].st = "null"
    /\ ops[2].st = "fetch"
    /\ ops[2].attempt = Retries
    /\ deck = <<>>

\* C19: a backoff delay elapses between any two consecutive attempts of
\* one operation, and it is the same fixed value whether the attempt failed
\* with an error status or with a timeout or exception.
C19_SameFixedBackoff ==
    \A i \in 1..Len(ops) : \A j \in 1..Len(ops) :
        (ops[i].st = "backoff" /\ ops[j].st = "backoff")
            => ops[i].wait = ops[j].wait

\* C19 as amended: a backoff delay elapses between any two consecutive
\* attempts of one operation: 3000 ms after an attempt that ended with an
\* error status whose text was read, 2000 ms after one that ended in the
\* catch block (network error, abort, a body that could not be read); the
\* wait of one operation changes no sibling and its timer fires whatever the
\* siblings do.
C19_BackoffByFailureKind ==
    /\ [][\A i \in 1..Len(ops) :
             /\ (ops'[i].st = "fetch" /\ ops'[i] # ops[i])
                   => /\ ops[i].st = "backoff"
                      /\ ops[i].wait \in {2000, 3000}
                      /\ ops'[i].attempt = ops[i].attempt + 1
             /\ (ops[i].st \in {"fetch", "body"} /\ ops'[i].st = "backoff")
                   => ops'[i].wait = 2000
             /\ (ops[i].st = "errbody" /\ ops'[i].st = "backoff")
                   => ops'[i].wait \in {2000, 3000}
             /\ (ops[i].st = "backoff" /\ ops'[i] # ops[i])
                   => \A j \in 1..Len(ops) : j # i => ops'[j] = ops[j]]_vars
    /\ [](\A i \in 1..Len(ops) :
             /\ (ops[i].st = "errbody" /\ ops[i].attempt < Retries)
                   => ENABLED (BodyArrives(i) /\ ops'[i].wait = 3000)
             /\ ops[i].st = "backoff" => ENABLED BackoffElapses(i))

\* two operations wait at the same time, one 3000 ms after an error status
\* and one 2000 ms after an exception
C19_Witness ==
    /\ pc = "fanout"
    /\ Len(ops) = MaxSlides + 1
    /\ ops[1] = Op("backoff", 0, 3000)
    /\ ops[2] = Op("backoff", 1, 2000)

\* an entry of a raw list that leaves no bullet: no string, empty or blank,
\* or longer than 150 characters and made of '.', ':', ';' and blanks only
LeavesNoBullet(item) ==
    \/ ~IsString(item)
    \/ Trim(item.s) = <<>>
    \/ /\ StrLen(Trim(item.s)) > MaxBulletLen
       /\ \A k \in 1..Len(item.s) : item.s[k].c \in ClauseSeps \cup {" "}

\* the raw content of the slide that came back at 0-based index idx is a
\* list all of whose entries leave no bullet
NothingLeft(idx) ==
    /\ generated.slidesTag = "list"
    /\ ~generated.rejects
    /\ ~ParseThrows(cleanJSON(generated))
    /\ idx + 1 <= Len(generated.slides)
    /\ IsArray(generated.slides[idx + 1].content)
    /\ \A k \in 1..Len(generated.slides[idx + 1].content.items) :
          LeavesNoBullet(generated.slides[idx + 1].content.items[k])

\* C20: for list content at slide index idx that filtering and truncation
\* leave without a bullet, normalization completes without error and the
\* slide's content is the single placeholder bullet 'Slide <idx+1> content'.
C20_EmptyListGetsPlaceholder ==
    \A idx \in 0..(MaxSlides - 1) :
        NothingLeft(idx) =>
            /\ Normalized
            /\ lessonData[idx + 1].content = JList(<<JStr(SlideNContent(idx))>>)

RECURSIVE BeforeFirst(_, _)
\* the text of str that precedes its first character of seps (all of str
\* when it has none)
BeforeFirst(str, seps) ==
    IF str = <<>> \/ Head(str).c \in seps THEN <<>>
    ELSE <<Head(str)>> \o BeforeFirst(Tail(str), seps)

\* the bullet stated for one string item of a raw list: its trimmed text
\* when that is at most 150 characters long, else the trimmed text before
\* its first '.', ':' or ';' (the whole trimmed text when it has none)
StatedBullet(item) ==
    IF StrLen(Trim(item.s)) <= MaxBulletLen THEN Trim(item.s)
    ELSE Trim(BeforeFirst(Trim(item.s), ClauseSeps))

\* the bullets stated for a raw list: those of its non-empty string items,
\* the empty ones left out
StatedBullets(items) ==
    LET strings == SelectSeq(items, LAMBDA item : Truthy(item) /\ IsString(item))
        bullets == [k \in 1..Len(strings) |-> JStr(StatedBullet(strings[k]))]
    IN  SelectSeq(bullets, LAMBDA b : b.s # <<>>)

\* the lesson that came back has a list as the content of slide i
ListCameBack(i) ==
    /\ generated.slidesTag = "list"
    /\ ~generated.rejects
    /\ ~ParseThrows(cleanJSON(generated))
    /\ i <= Len(generated.slides)
    /\ IsArray(generated.slides[i].content)

\* C21: for list content every string item of at most 150 characters after
\* trimming is kept as its trimmed text, every longer item is replaced by
\* the trimmed text that precedes its first '.', ':' or ';', and a longer
\* item without any of them is kept in full (a list that is left without a
\* bullet getting the placeholder).
C21_ItemsCutBeforeFirstSeparator ==
    \A i \in 1..MaxSlides :
        ListCameBack(i) =>
            /\ Normalized
            /\ lessonData[i].content
                  = JList(IF StatedBullets(generated.slides[i].content.items) = <<>>
                          THEN <<JStr(SlideNContent(i - 1))>>
                          ELSE StatedBullets(generated.slides[i].content.items))

RECURSIVE DropLeading(_, _)
\* str without its leading characters of chars
DropLeading(str, chars) ==
    IF str # <<>> /\ Head(str).c \in chars THEN DropLeading(Tail(str), chars)
    ELSE str

\* the first piece of str between separators that is not blank, trimmed;
\* empty when there is none
FirstPart(str) ==
    Trim(BeforeFirst(DropLeading(str, ClauseSeps \cup {" "}), ClauseSeps))

\* a string item longer than 150 characters after trimming that has no
\* part: it consists of separators and blanks
HasNoPart(item) ==
    /\ Truthy(item) /\ IsString(item)
    /\ StrLen(Trim(item.s)) > MaxBulletLen
    /\ FirstPart(Trim(item.s)) = <<>>

\* the bullets of a raw list none of whose items HasNoPart
PartBullets(items) ==
    LET strings == SelectSeq(items, LAMBDA item : Truthy(item) /\ IsString(item))
        bullets == [k \in 1..Len(strings) |->
                       JStr(IF StrLen(Trim(strings[k].s)) <= MaxBulletLen
                            THEN Trim(strings[k].s)
                            ELSE FirstPart(Trim(strings[k].s)))]
    IN  SelectSeq(bullets, LAMBDA b : b.s # <<>>)

\* C21 as amended: a string item of at most 150 characters after trimming
\* is kept as its trimmed text (dropped when that is empty); a longer item
\* is replaced by its first non-blank part between separators, trimmed,
\* which is the text before its first separator only when the item does not
\* begin with one, and is the whole item when it has no separator; a longer
\* item without any such part makes the request fail with a TypeError.
C21_ItemsCutToFirstPart ==
    \A i \in 1..MaxSlides :
        ListCameBack(i) =>
            IF \E j \in 1..i : IsArray(generated.slides[j].content)
                  /\ \E k \in 1..Len(generated.slides[j].content.items) :
                         HasNoPart(generated.slides[j].content.items[k])
            THEN /\ pc = "done"
                 /\ LastResp = FailedResp(
                        "Cannot read properties of undefined (reading 'length')")
            ELSE (Normalized \/ pc = "done") =>
                 /\ Normalized
                 /\ lessonData[i].content
                       = JList(IF PartBullets(generated.slides[i].content.items) = <<>>
                               THEN <<JStr(SlideNContent(i - 1))>>
                               ELSE PartBullets(generated.slides[i].content.items))

\* a list whose only item is a separator followed by 150 letters has been
\* normalized to the 150 letters
C21_Witness ==
    /\ Normalized
    /\ ListCameBack(1)
    /\ generated.slides[1].content.items
          = <<JStr(<<Run(".", 1), Run("a", MaxBulletLen)>>)>>
    /\ lessonData[1].content = JList(<<JStr(<<Run("a", MaxBulletLen)>>)>>)

RECURSIVE StatedFragments(_)
\* the fragments of str between runs of '.', '!' and '?', trimmed, the
\* empty ones dropped, in their order
StatedFragments(str) ==
    LET rest == DropLeading(str, SentenceEnds)
        frag == BeforeFirst(rest, SentenceEnds)
    IN  IF rest = <<>> THEN <<>>
        ELSE (IF Trim(frag) = <<>> THEN <<>> ELSE <<Trim(frag)>>)
                 \o StatedFragments(SubSeq(rest, Len(frag) + 1, Len(rest)))

\* the lesson that came back has a non-empty string as the content of slide i
StringCameBack(i) ==
    /\ generated.slidesTag = "list"
    /\ ~generated.rejects
    /\ ~ParseThrows(cleanJSON(generated))
    /\ i <= Len(generated.slides)
    /\ IsString(generated.slides[i].content)
    /\ generated.slides[i].content.s # <<>>

\* C22: for content given as a non-empty string the normalized bullets are
\* exactly the first 5 (or fewer) of its fragments between runs of '.', '!'
\* and '?', trimmed, the empty ones dropped, in their original order.
C22_FirstFiveFragments ==
    \A i \in 1..MaxSlides :
        StringCameBack(i) =>
            LET stated == StatedFragments(generated.slides[i].content.s)
                kept == IF Len(stated) < MaxBullets THEN Len(stated) ELSE MaxBullets
            IN  /\ Normalized
                /\ lessonData[i].content = JList([k \in 1..kept |-> JStr(stated[k])])

\* a string of more than 5 fragments, not all alike, has been normalized to
\* 5 bullets
C22_Witness ==
    /\ Normalized
    /\ StringCameBack(1)
    /\ Len(StatedFragments(generated.slides[1].content.s)) > MaxBullets
    /\ Len(lessonData[1].content.items) = MaxBullets
    /\ lessonData[1].content.items[1] # lessonData[1].content.items[MaxBullets]

\* C23: the local-context phrase is a total mapping with a default: the
\* strings 'urban', 'rural', 'mountain' and 'coastal' map to their phrases
\* and every other areaType (absent, any other string, names of built-in
\* object properties included, or a value that is no string) maps to
\* 'everyday student life'; the result is always one of these five
\* strings.
C23_LocalContextTotal ==
    pc = "generating" =>
        /\ areaType = JStr(KeyUrban) => localContext = UrbanPhrase
        /\ areaType = JStr(KeyRural) => localContext = RuralPhrase
        /\ areaType = JStr(KeyMountain) => localContext = MountainPhrase
        /\ areaType = JStr(KeyCoastal) => localContext = CoastalPhrase
        /\ areaType \notin {JStr(KeyUrban), JStr(KeyRural), JStr(KeyMountain),
                            JStr(KeyCoastal)}
              => localContext = DefaultPhrase
        /\ localContext \in {UrbanPhrase, RuralPhrase, MountainPhrase,
                             CoastalPhrase, DefaultPhrase}

\* the images embedded in the deck: the cover image if placed and the
\* content slides that received an image
EmbeddedImages == Cardinality({i \in 1..Len(deck) : deck[i].image.has})

\* the content slides of the deck
ContentSlides == Cardinality({i \in 1..Len(deck) : deck[i].kind = "content"})

\* C24: in every success response preview.imagesGenerated is the number of
\* images embedded in the deck and preview.slideCount is the number of
\* content slides of the deck.
C24_PreviewMatchesDeck ==
    Succeeded =>
        /\ LastResp.imagesGenerated = EmbeddedImages
        /\ LastResp.slideCount = ContentSlides

\* a success response for a deck of MaxSlides content slides without a
\* cover image and with an image on its first content slide only
C24_Witness ==
    /\ Succeeded
    /\ ContentSlides = MaxSlides
    /\ ~deck[1].image.has
    /\ deck[2].image.has
    /\ EmbeddedImages = 1

=============================================================================
